---- MODULE Spec2Model ----
(***************************************************************************)
(* The streaming protocol between the editor extension and the Python      *)
(* agent process: AIAgentService.sendMessage and                           *)
(* ChatViewProvider.sendMessageToAgent spawn one process per request,      *)
(* reassemble its stdout into lines, classify each line as a frame         *)
(* (CHUNK:, END_STREAM, ERROR:) and settle the request's promise;          *)
(* AIAgentService.getSessionHistory and clearSession collect the whole     *)
(* output and settle on 'close'.                                           *)
(*                                                                         *)
(* Text is a sequence of characters (one-character strings); the bytes of  *)
(* the process's stdout are a sequence of byte tokens, where an ASCII byte *)
(* is written as its character and the two bytes of the one non-ASCII      *)
(* character of the alphabet are LeadByte and ContByte.                    *)
(***************************************************************************)
EXTENDS Integers, Sequences, FiniteSets

VARIABLES
    kind,            \* the request in flight: "none", "send", "history", "clear"
    impl,            \* whose method issued it: "service" or "view"
    proc,            \* the child process: "none", "spawnfail", "running", "closed",
                     \* or "threw" when its 'error' event found no listener
    stdout,          \* the bytes the process writes to its standard output
    pos,             \* how many of them have been delivered in 'data' events
    received,        \* the text of all 'data' events so far (each data.toString())
    delivery,        \* the 'data' events so far: "none", "single" or "split"
    responseBuffer,  \* sendMessage's let responseBuffer
    output,          \* getSessionHistory's and clearSession's let output
    fullResponse,    \* sendMessageToAgent's let fullResponse
    sink,            \* the calls of onChunk, or the messages posted to the webview
    frames,          \* the branch the classification loop took for each line it decoded
    promise,         \* the request's promise: its state and its value or reason
    fs,              \* the temporary scripts that exist in agentPath
    consoleErrors,   \* how many times 'Failed to clean up temp file' was logged
    errored,         \* the process emitted 'error'
    exitCode,        \* the code the 'close' event carried
    view,            \* ChatViewProvider's _view is set
    files,           \* with several requests in flight: the script each path holds
    reqs,            \* with several requests in flight: the requests issued so far
    logs,            \* the agent's message log of each session
    currentSessionId,\* AIAgentService's currentSessionId
    lastSet,         \* the argument of the most recent setSessionId
    yielded,         \* the chunks stream_response yielded to the generated script
    raised,          \* whether stream_response raised an exception after them
    sentMessage,     \* the message argument of a send
    sentSession,     \* the session of that send
    pythonScript,    \* the call line of the script generated for it
    agentCall,       \* what python makes of that line
    handler,         \* where the view's handler of the webview event stands
    panel            \* the messages that handler posted to the webview

\* the state of one request taken alone
requestVars ==
    <<kind, impl, proc, stdout, pos, received, delivery, responseBuffer, output,
      fullResponse, sink, frames, promise, fs, consoleErrors, errored, exitCode,
      handler, panel>>

\* the current-session register of the service
registerVars == <<currentSessionId, lastSet>>

\* what the agent did inside the generated script of a send
runVars == <<yielded, raised>>

\* the generated script of a send as text
scriptVars == <<sentMessage, sentSession, pythonScript, agentCall>>

\* the state of the requests in flight together, and of the agent's store
agentVars == <<files, reqs, logs, registerVars, runVars, scriptVars>>

vars == <<requestVars, view, agentVars>>

(***************************************************************************)
(* Bounds of the model.                                                    *)
(***************************************************************************)
\* the most lines a process writes
MaxLines == 2
\* the most requests in flight together
MaxRequests == 2

(***************************************************************************)
(* Characters, bytes and the protocol's literals.                          *)
(***************************************************************************)
NL == "\n"
\* the two bytes of U+00E9 in UTF-8, the character itself, and U+FFFD
LeadByte == "xC3"
ContByte == "xA9"
EAcute == "U+00E9"
Replacement == "U+FFFD"

CHUNK_PREFIX == <<"C", "H", "U", "N", "K", ":">>
END_STREAM == <<"E", "N", "D", "_", "S", "T", "R", "E", "A", "M">>
ERROR_PREFIX == <<"E", "R", "R", "O", "R", ":">>

(***************************************************************************)
(* String operations of the host language.                                 *)
(***************************************************************************)
\* data.toString(): UTF-8 decoding of one fragment on its own; a byte
\* sequence cut by the fragment's boundary decodes to U+FFFD.  Decoded has,
\* at each byte's place, the character that byte completes ("" for none)
Decoded(b) ==
    [i \in 1..Len(b) |->
        IF b[i] = LeadByte
        THEN (IF i < Len(b) /\ b[i + 1] = ContByte THEN "" ELSE Replacement)
        ELSE IF b[i] = ContByte
             THEN (IF i > 1 /\ b[i - 1] = LeadByte THEN EAcute ELSE Replacement)
             ELSE b[i]]

toString(b) == SelectSeq(Decoded(b), LAMBDA ch : ch # "")

\* s.startsWith(p)
StartsWith(s, p) == Len(s) >= Len(p) /\ SubSeq(s, 1, Len(p)) = p

\* s.substring(n)
Substring(s, n) == SubSeq(s, n + 1, Len(s))

\* s.split('\n'): the pieces between the newlines, always at least one
RECURSIVE SplitFrom(_, _, _)
SplitFrom(s, i, piece) ==
    IF i > Len(s) THEN <<piece>>
    ELSE IF s[i] = NL THEN <<piece>> \o SplitFrom(s, i + 1, <<>>)
         ELSE SplitFrom(s, i + 1, Append(piece, s[i]))

Split(s) == SplitFrom(s, 1, <<>>)

\* a reassembler that holds nothing back
DropIncomplete(lines) == <<>>

\* lines.pop() || '': the text after the last newline, held back
KeepIncomplete(lines) == lines[Len(lines)]

\* the complete lines: what lines.pop() leaves in the array
CompleteLines(lines) == SubSeq(lines, 1, Len(lines) - 1)

(***************************************************************************)
(* The promise of a request.  resolve and reject of a settled promise do   *)
(* nothing.                                                                *)
(***************************************************************************)
NoValue == <<>>
Pending == [state |-> "pending", value |-> NoValue]

\* a reject that overturns a settled promise
rejectSettled(p, e) == [state |-> "rejected", value |-> e]

\* a resolve that overturns a settled promise
resolveSettled(p, v) == [state |-> "fulfilled", value |-> v]

resolve(p, v) ==
    IF p.state = "pending" THEN [state |-> "fulfilled", value |-> v] ELSE p

reject(p, e) ==
    IF p.state = "pending" THEN [state |-> "rejected", value |-> e] ELSE p

(***************************************************************************)
(* The temporary script of a request and its removal.                      *)
(***************************************************************************)
ScriptPath(k, im) ==
    IF k = "send" THEN (IF im = "service" THEN "temp_chat.py" ELSE "temp_vscode_chat.py")
    ELSE IF k = "history" THEN "temp_history.py"
    ELSE "temp_clear.py"

\* an unlinkSync outside try/catch: its failure fails the request
UnlinkEscalates(c, path) ==
    IF path \in c.fs
    THEN [c EXCEPT !.fs = @ \ {path}]
    ELSE [c EXCEPT !.promise = rejectSettled(@, <<"E", "N", "O", "E", "N", "T">>)]

\* try { fs.unlinkSync(scriptPath) } catch (e) { console.error(...) }
Unlink(c, path) ==
    IF path \in c.fs
    THEN [c EXCEPT !.fs = @ \ {path}]
    ELSE [c EXCEPT !.consoleErrors = @ + 1]

(***************************************************************************)
(* The stdout 'data' handler of sendMessage / sendMessageToAgent.  c is    *)
(* the state the handler's closure reads and writes.                       *)
(***************************************************************************)
Frame(t, x) == [type |-> t, text |-> x]

\* a CHUNK: branch that puts the chunk before the ones delivered so far
OnChunkLineInFront(c, im, chunk) ==
    [c EXCEPT !.fullResponse = chunk \o @,
              !.sink = <<Frame(IF im = "service" THEN "onChunk" ELSE "streamChunk", chunk)>> \o @,
              !.frames = Append(@, Frame("Chunk", chunk))]

\* the CHUNK: branch
OnChunkLine(c, im, chunk) ==
    IF im = "service"
    THEN [c EXCEPT !.sink = Append(@, Frame("onChunk", chunk)),
                   !.frames = Append(@, Frame("Chunk", chunk))]
    ELSE [c EXCEPT !.fullResponse = @ \o chunk,
                   !.sink = Append(@, Frame("streamChunk", chunk)),
                   !.frames = Append(@, Frame("Chunk", chunk))]

\* the END_STREAM branch
OnEndStream(c, im) ==
    LET posted == IF im = "service" THEN c
                  ELSE [c EXCEPT !.sink = Append(@, Frame("addMessage", c.fullResponse))]
        cleaned == Unlink(posted, ScriptPath("send", im))
    IN  [cleaned EXCEPT !.promise = resolve(@, NoValue),
                        !.frames = Append(@, Frame("End", <<>>))]

\* an ERROR: branch that rejects with the whole line
OnErrorLineWholeLine(c, error) ==
    [c EXCEPT !.promise = reject(@, ERROR_PREFIX \o error),
              !.frames = Append(@, Frame("Error", error))]

\* the ERROR: branch
OnErrorLine(c, error) ==
    [c EXCEPT !.promise = reject(@, error),
              !.frames = Append(@, Frame("Error", error))]

\* a loop that fails the request on a line no branch matches
OnOtherLineRejects(c, line) == [c EXCEPT !.promise = reject(@, line)]

\* a line no branch matches
OnOtherLine(c, line) == c

\* a loop that takes every line beginning with END_STREAM for the end marker
RECURSIVE ProcessLinesEndPrefix(_, _, _)
ProcessLinesEndPrefix(lines, c, im) ==
    IF lines = <<>> THEN c
    ELSE LET line == Head(lines)
         IN  IF StartsWith(line, CHUNK_PREFIX)
             THEN ProcessLinesEndPrefix(Tail(lines),
                                        OnChunkLine(c, im, Substring(line, 6)), im)
             ELSE IF StartsWith(line, END_STREAM)
                  THEN OnEndStream(c, im)
                  ELSE IF StartsWith(line, ERROR_PREFIX)
                       THEN OnErrorLine(c, Substring(line, 6))
                       ELSE ProcessLinesEndPrefix(Tail(lines), OnOtherLine(c, line), im)

\* for (const line of lines) { ... }: the END_STREAM and ERROR: branches return
RECURSIVE ProcessLines(_, _, _)
ProcessLines(lines, c, im) ==
    IF lines = <<>> THEN c
    ELSE LET line == Head(lines)
         IN  IF StartsWith(line, CHUNK_PREFIX)
             THEN ProcessLines(Tail(lines), OnChunkLine(c, im, Substring(line, 6)), im)
             ELSE IF line = END_STREAM
                  THEN OnEndStream(c, im)
                  ELSE IF StartsWith(line, ERROR_PREFIX)
                       THEN OnErrorLine(c, Substring(line, 6))
                       ELSE ProcessLines(Tail(lines), OnOtherLine(c, line), im)

\* pythonProcess.stdout.on('data', ...)
DataHandler(c, im, data) ==
    LET lines == Split(c.responseBuffer \o toString(data))
    IN  ProcessLines(CompleteLines(lines),
                     [c EXCEPT !.responseBuffer = KeepIncomplete(lines)], im)

(***************************************************************************)
(* More of the host language: includes, trim and JSON.parse.  A parsed     *)
(* JSON value is a record [t, v]: a string ("str", its text), null, an     *)
(* array ("arr", the sequence of its items) or an object ("obj", the       *)
(* sequence of its <<key, value>> members).  A parser's result is          *)
(* [ok, value, next]: next is the index after what it read.                *)
(***************************************************************************)
\* s.includes(p)
Includes(s, p) ==
    \E i \in 0..(Len(s) - Len(p)) : SubSeq(s, i + 1, i + Len(p)) = p

WhiteSpace == {" ", NL}

\* s.trim()
RECURSIVE TrimStart(_)
TrimStart(s) ==
    IF s # <<>> /\ Head(s) \in WhiteSpace THEN TrimStart(Tail(s)) ELSE s

RECURSIVE TrimEnd(_)
TrimEnd(s) ==
    IF s # <<>> /\ s[Len(s)] \in WhiteSpace
    THEN TrimEnd(SubSeq(s, 1, Len(s) - 1)) ELSE s

Trim(s) == TrimEnd(TrimStart(s))

JsonNull == [t |-> "null", v |-> <<>>]
Undefined == [t |-> "undefined", v |-> <<>>]
JsonFail == [ok |-> FALSE, value |-> Undefined, next |-> 0]
JsonOk(val, i) == [ok |-> TRUE, value |-> val, next |-> i]

RECURSIVE SkipSpace(_, _)
SkipSpace(s, i) ==
    IF i <= Len(s) /\ s[i] \in WhiteSpace THEN SkipSpace(s, i + 1) ELSE i

\* the characters of a string literal up to its closing quote; i is after the opening one
RECURSIVE ParseChars(_, _, _)
ParseChars(s, i, acc) ==
    IF i > Len(s) \/ s[i] = NL \/ s[i] = "\\" THEN JsonFail
    ELSE IF s[i] = "\"" THEN JsonOk([t |-> "str", v |-> acc], i + 1)
         ELSE ParseChars(s, i + 1, Append(acc, s[i]))

RECURSIVE ParseValue(_, _)
RECURSIVE ParseItems(_, _, _)
RECURSIVE ParseMembers(_, _, _)

\* the items of an array after its first; i is after an item
ParseItems(s, i, acc) ==
    LET j == SkipSpace(s, i)
    IN  IF j > Len(s) THEN JsonFail
        ELSE IF s[j] = "]" THEN JsonOk([t |-> "arr", v |-> acc], j + 1)
        ELSE IF s[j] # "," THEN JsonFail
        ELSE LET item == ParseValue(s, j + 1)
             IN  IF item.ok THEN ParseItems(s, item.next, Append(acc, item.value))
                 ELSE JsonFail

\* one "key": value member at i, then the rest of the object
ParseMembers(s, i, acc) ==
    LET j == SkipSpace(s, i)
    IN  IF j > Len(s) \/ s[j] # "\"" THEN JsonFail
        ELSE LET key == ParseChars(s, j + 1, <<>>)
                 c == IF key.ok THEN SkipSpace(s, key.next) ELSE 0
             IN  IF ~key.ok \/ c > Len(s) \/ s[c] # ":" THEN JsonFail
                 ELSE LET val == ParseValue(s, c + 1)
                          e == IF val.ok THEN SkipSpace(s, val.next) ELSE 0
                          members == Append(acc, <<key.value.v, val.value>>)
                      IN  IF ~val.ok \/ e > Len(s) THEN JsonFail
                          ELSE IF s[e] = "}" THEN JsonOk([t |-> "obj", v |-> members], e + 1)
                          ELSE IF s[e] = "," THEN ParseMembers(s, e + 1, members)
                          ELSE JsonFail

ParseValue(s, i) ==
    LET j == SkipSpace(s, i)
    IN  IF j > Len(s) THEN JsonFail
        ELSE IF s[j] = "\"" THEN ParseChars(s, j + 1, <<>>)
        ELSE IF j + 3 <= Len(s) /\ SubSeq(s, j, j + 3) = <<"n", "u", "l", "l">>
             THEN JsonOk(JsonNull, j + 4)
        ELSE IF s[j] = "["
             THEN LET k == SkipSpace(s, j + 1)
                  IN  IF k <= Len(s) /\ s[k] = "]" THEN JsonOk([t |-> "arr", v |-> <<>>], k + 1)
                      ELSE LET item == ParseValue(s, k)
                           IN  IF item.ok THEN ParseItems(s, item.next, <<item.value>>)
                               ELSE JsonFail
        ELSE IF s[j] = "{"
             THEN LET k == SkipSpace(s, j + 1)
                  IN  IF k <= Len(s) /\ s[k] = "}" THEN JsonOk([t |-> "obj", v |-> <<>>], k + 1)
                      ELSE ParseMembers(s, k, <<>>)
        ELSE JsonFail

\* JSON.parse(s): one value and nothing but white space after it
JsonParse(s) ==
    LET r == ParseValue(s, 1)
    IN  IF r.ok /\ SkipSpace(s, r.next) > Len(s) THEN r ELSE JsonFail

\* entry.key: undefined when entry has no such member (the last of equal keys counts)
Member(entry, key) ==
    IF entry.t # "obj" THEN Undefined
    ELSE LET hits == {i \in 1..Len(entry.v) : entry.v[i][1] = key}
         IN  IF hits = {} THEN Undefined
             ELSE entry.v[CHOOSE i \in hits : \A m \in hits : m <= i][2]

(***************************************************************************)
(* What the processes write.  A stream is up to MaxLines lines, the last   *)
(* one with or without its newline; HelloStream is the stream of the       *)
(* framing example.                                                        *)
(***************************************************************************)
ChunkLine(content) == CHUNK_PREFIX \o content
ErrorLine(message) == ERROR_PREFIX \o message

Lines ==
    { ChunkLine(<<"a">>), ChunkLine(<<LeadByte, ContByte>>),
      END_STREAM, ErrorLine(<<"x">>), <<>>, <<"w">> }

RECURSIVE Terminated(_)
Terminated(n) ==
    IF n = 0 THEN {<<>>}
    ELSE {s \o l \o <<NL>> : s \in Terminated(n - 1), l \in Lines}

Unterminated(n) ==
    {s \o l : s \in Terminated(n - 1), l \in Lines \ {<<>>}}

Hello == <<"H", "e", "l", "l", "o">>
World == <<" ", "w", "o", "r", "l", "d">>
HelloStream ==
    ChunkLine(Hello) \o <<NL>> \o ChunkLine(World) \o <<NL>> \o END_STREAM \o <<NL>>

\* single lines around the three markers: a marker with nothing after it,
\* with text after it, with another marker after it, and with text before it
ClassifiedLines ==
    { p \o h \o t :
        p \in {<<>>, <<" ">>},
        h \in {CHUNK_PREFIX, END_STREAM, ERROR_PREFIX, <<"w">>},
        t \in {<<>>, <<"a">>, <<" ">>, END_STREAM, ErrorLine(<<"x">>), ChunkLine(<<"a">>)} }

Streams ==
    UNION {Terminated(n) : n \in 0..MaxLines}
        \cup UNION {Unterminated(n) : n \in 1..MaxLines}
        \cup {HelloStream}
        \cup {l \o <<NL>> : l \in ClassifiedLines}

\* json.dumps of one history entry and of a history
Quoted(text) == <<"\"">> \o text \o <<"\"">>
KeyValue(key, text) == Quoted(key) \o <<":", " ">> \o Quoted(text)
TYPE == <<"t", "y", "p", "e">>
CONTENT == <<"c", "o", "n", "t", "e", "n", "t">>
TIMESTAMP == <<"t", "i", "m", "e", "s", "t", "a", "m", "p">>
HUMAN == <<"h", "u", "m", "a", "n">>
AI == <<"a", "i">>
EntryText(type, content, timestamp) ==
    <<"{">> \o KeyValue(TYPE, type) \o <<",", " ">> \o KeyValue(CONTENT, content)
        \o <<",", " ">> \o KeyValue(TIMESTAMP, timestamp) \o <<"}">>
Entry1 == EntryText(HUMAN, <<"q">>, <<"1">>)
Entry2 == EntryText(AI, <<LeadByte, ContByte>>, <<"2">>)

HistoryStreams ==
    { <<"[", "]", NL>>,
      <<"[">> \o Entry1 \o <<"]", NL>>,
      <<"[">> \o Entry1 \o <<",", " ">> \o Entry2 \o <<"]", NL>>,
      <<"[">> \o Entry1,
      <<"[", "n", "u", "l", "l", "]", NL>>,
      <<"{", "}", NL>>,
      <<"w", NL, "[", "]", NL>>,
      ErrorLine(<<"x">>) \o <<NL>>,
      <<>> }

SUCCESS == <<"S", "U", "C", "C", "E", "S", "S">>
\* clear_session raised an exception whose message is SUCCESS
ErrorNamingSuccess == ErrorLine(SUCCESS) \o <<NL>>

ClearStreams ==
    { SUCCESS \o <<NL>>, <<"w", NL>> \o SUCCESS \o <<NL>>, SUCCESS,
      ErrorLine(<<"x">>) \o <<NL>>, ErrorNamingSuccess, <<>> }

\* the code of a 'close' event: a number, or null when a signal ended the process
Null == <<>>
Code(n) == <<n>>
ExitCodes == {Code(0), Code(1), Null}
\* the code 'close' carries after a failed spawn: the negated errno of ENOENT
SpawnFailCode == Code(-2)

(***************************************************************************)
(* Error messages.                                                         *)
(***************************************************************************)
\* `${code}`
CodeText(code) ==
    IF code = Null THEN <<"n", "u", "l", "l">>
    ELSE IF code[1] < 0 THEN <<"-", "2">>
    ELSE IF code[1] = 0 THEN <<"0">>
    ELSE IF code[1] = 1 THEN <<"1">> ELSE <<"2">>

\* `Python process exited with code ${code}`
ExitMessage(code) ==
    <<"P", "y", "t", "h", "o", "n", " ", "p", "r", "o", "c", "e", "s", "s", " ",
      "e", "x", "i", "t", "e", "d", " ", "w", "i", "t", "h", " ", "c", "o", "d", "e", " ">>
        \o CodeText(code)

\* 'Failed to parse history response'
ParseFailure ==
    <<"F", "a", "i", "l", "e", "d", " ", "t", "o", " ", "p", "a", "r", "s", "e", " ",
      "h", "i", "s", "t", "o", "r", "y", " ", "r", "e", "s", "p", "o", "n", "s", "e">>

\* `Failed to get history, exit code: ${code}`
HistoryExitMessage(code) ==
    <<"F", "a", "i", "l", "e", "d", " ", "t", "o", " ", "g", "e", "t", " ",
      "h", "i", "s", "t", "o", "r", "y", ",", " ", "e", "x", "i", "t", " ",
      "c", "o", "d", "e", ":", " ">> \o CodeText(code)

\* 'Failed to clear session'
ClearFailure ==
    <<"F", "a", "i", "l", "e", "d", " ", "t", "o", " ", "c", "l", "e", "a", "r", " ",
      "s", "e", "s", "s", "i", "o", "n">>

\* the message of the error a failed spawn emits, and of a failed writeFileSync
SpawnError == <<"s", "p", "a", "w", "n", " ", "p", "y", "t", "h", "o", "n", " ",
                "E", "N", "O", "E", "N", "T">>
WriteError == <<"E", "N", "O", "E", "N", "T", ":", " ", "o", "p", "e", "n">>

(***************************************************************************)
(* The state a request's handlers share, and the state after construction. *)
(***************************************************************************)
Closure ==
    [responseBuffer |-> responseBuffer, fullResponse |-> fullResponse,
     sink |-> sink, frames |-> frames, promise |-> promise, fs |-> fs,
     consoleErrors |-> consoleErrors]

Store(c) ==
    /\ responseBuffer' = c.responseBuffer
    /\ fullResponse' = c.fullResponse
    /\ sink' = c.sink
    /\ frames' = c.frames
    /\ promise' = c.promise
    /\ fs' = c.fs
    /\ consoleErrors' = c.consoleErrors

(***************************************************************************)
(* Several requests in flight.  A generated script is known by the         *)
(* operation it performs and by the prompt and the session id written into *)
(* it; every request of one kind writes it to the same path.  The agent    *)
(* keeps a message log for each session id.                                *)
(***************************************************************************)
\* private currentSessionId: string = 'vscode_session', and another session
Sessions == {"vscode_session", "B"}
Prompts == {"p", "q"}
Paths == {"temp_chat.py", "temp_vscode_chat.py", "temp_history.py", "temp_clear.py"}

NoFile == [op |-> "none", prompt |-> "", session |-> ""]
Script(op, prompt, session) == [op |-> op, prompt |-> prompt, session |-> session]

\* a sessionId argument left out (undefined), or the empty string: both falsy
Omitted == ""
SessionIds == Sessions \cup {Omitted}

\* a session selection that falls back on the initial session
SessionOrDefault(sessionId, current) ==
    IF sessionId = Omitted THEN "vscode_session" ELSE sessionId

\* const session = sessionId || this.currentSessionId
SessionOr(sessionId, current) ==
    IF sessionId = Omitted THEN current ELSE sessionId

\* a request as its promise executor leaves it: the script written, the
\* process spawned, the handlers' variables initialised; sessionId and
\* current are the argument and the current session of the call
NewRequest(op, im, sessionId, current, prompt) ==
    [op |-> op, impl |-> im, sessionId |-> sessionId,
     session |-> SessionOr(sessionId, current), prompt |-> prompt,
     phase |-> "spawned", ran |-> NoFile, emptied |-> {}, stdout |-> <<>>, code |-> Null,
     responseBuffer |-> <<>>, fullResponse |-> <<>>, output |-> <<>>, sink |-> <<>>,
     frames |-> <<>>, promise |-> Pending, consoleErrors |-> 0]

\* agent.clear_session(session): the log of that session is discarded
clear_session(store, session) == [store EXCEPT ![session] = <<>>]

\* agent.stream_response(prompt, session): the exchange is appended to the log
stream_response(store, prompt, session) ==
    [store EXCEPT ![session] = Append(@, prompt)]

\* no python has read the call line
NotRun == [status |-> "none", prompt |-> <<>>, session |-> <<>>]

Idle ==
    /\ handler = "none"
    /\ panel = <<>>
    /\ kind = "none"
    /\ impl = "service"
    /\ proc = "none"
    /\ stdout = <<>>
    /\ pos = 0
    /\ received = <<>>
    /\ delivery = "none"
    /\ responseBuffer = <<>>
    /\ output = <<>>
    /\ fullResponse = <<>>
    /\ sink = <<>>
    /\ frames = <<>>
    /\ promise = Pending
    /\ fs = {}
    /\ consoleErrors = 0
    /\ errored = FALSE
    /\ exitCode = Null

Init ==
    /\ Idle
    /\ view = FALSE
    /\ currentSessionId = "vscode_session"
    /\ lastSet = "vscode_session"
    /\ yielded = <<>>
    /\ raised = FALSE
    /\ sentMessage = <<>>
    /\ sentSession = "vscode_session"
    /\ pythonScript = <<>>
    /\ agentCall = NotRun
    /\ files = [p \in Paths |-> NoFile]
    /\ reqs = <<>>
    /\ logs = [s \in Sessions |-> <<>>]

\* resolveWebviewView sets this._view
ResolveWebviewView ==
    /\ kind = "none"
    /\ ~view
    /\ view' = TRUE
    /\ UNCHANGED <<kind, impl, proc, stdout, pos, received, delivery, responseBuffer, output,
                   fullResponse, sink, frames, promise, fs, consoleErrors, errored,
                   exitCode>>
    /\ UNCHANGED <<handler, panel, agentVars>>

(***************************************************************************)
(* The handlers of the webview's events, handleSendMessage and             *)
(* handleClearChat: what they post before they await the request and when  *)
(* they resume after it settled.                                           *)
(***************************************************************************)
Post(type, role, content, isTyping) ==
    [type |-> type, role |-> role, content |-> content, isTyping |-> isTyping]

AddMessage(role, content) == Post("addMessage", role, content, FALSE)
Typing(isTyping) == Post("typing", "", <<>>, isTyping)
ClearMessages == Post("clearMessages", "", <<>>, FALSE)

\* `Error: ${error}` of an Error with the message text
ErrorLabel == <<"E", "r", "r", "o", "r", ":", " ">>
ErrorContent(text) == ErrorLabel \o ErrorLabel \o text

\* handleSendMessage up to its await; handleClearChat posts nothing before
BeforeAwait(k) ==
    IF k = "send" THEN <<AddMessage("user", sentMessage), Typing(TRUE)>> ELSE <<>>

\* a handler that stops the typing indicator inside the try block
AfterSendInTry(p) ==
    IF p.state = "rejected" THEN <<AddMessage("assistant", ErrorContent(p.value))>>
    ELSE <<Typing(FALSE)>>

\* handleSendMessage after its await: the catch clause, then typing false
AfterSend(p) ==
    (IF p.state = "rejected" THEN <<AddMessage("assistant", ErrorContent(p.value))>>
     ELSE <<>>) \o <<Typing(FALSE)>>

\* handleClearChat after its await: clearMessages, or the catch clause
AfterClear(p) == IF p.state = "fulfilled" THEN <<ClearMessages>> ELSE <<>>

\* the handler resumes once the promise it awaits has settled
Resume(k, posts) ==
    /\ kind = k
    /\ impl = "view"
    /\ handler = "awaiting"
    /\ promise.state # "pending"
    /\ panel' = panel \o posts
    /\ handler' = "done"
    /\ UNCHANGED <<kind, impl, proc, stdout, pos, received, delivery, responseBuffer, output,
                   fullResponse, sink, frames, promise, fs, consoleErrors, errored,
                   exitCode, view>>
    /\ UNCHANGED agentVars

HandleSendMessage == Resume("send", AfterSend(promise))

HandleClearChat == Resume("clear", AfterClear(promise))

(***************************************************************************)
(* Issuing a request: the promise's executor writes the script and spawns  *)
(* the process.  env is what the file system and the spawn do.             *)
(***************************************************************************)
Executor(k, im, env, out) ==
    /\ kind = "none"
    /\ kind' = k
    /\ impl' = im
    /\ handler' = IF im = "view" THEN "awaiting" ELSE "none"
    /\ panel' = IF im = "view" THEN BeforeAwait(k) ELSE <<>>
    /\ IF env = "writefail"
       THEN /\ promise' = reject(Pending, WriteError)
            /\ UNCHANGED <<proc, stdout, fs>>
       ELSE /\ promise' = Pending
            /\ fs' = fs \cup {ScriptPath(k, im)}
            /\ proc' = IF env = "spawnfail" THEN "spawnfail" ELSE "running"
            /\ stdout' = IF env = "spawnfail" THEN <<>> ELSE out
    /\ UNCHANGED <<pos, received, delivery, responseBuffer, output, fullResponse, sink,
                   frames, consoleErrors, errored, exitCode, view>>

Issue(k, im, env, out) == Executor(k, im, env, out) /\ UNCHANGED agentVars

\* AIAgentService.sendMessage
SendMessage(env, out) == Issue("send", "service", env, out)

\* ChatViewProvider.sendMessageToAgent, reached from handleSendMessage when _view is set
SendMessageToAgent(env, out) == view /\ Issue("send", "view", env, out)

(***************************************************************************)
(* The events of a request's process, and sendMessage's handlers.          *)
(***************************************************************************)
\* the next n bytes of stdout
Fragment(n) == SubSeq(stdout, pos + 1, pos + n)

SendData(n) ==
    /\ kind = "send"
    /\ proc = "running"
    /\ n \in 1..(Len(stdout) - pos)
    /\ \E c \in {DataHandler(Closure, impl, Fragment(n))} : Store(c)
    /\ pos' = pos + n
    /\ received' = received \o toString(Fragment(n))
    /\ delivery' = IF delivery = "none" THEN "single" ELSE "split"
    /\ UNCHANGED <<kind, impl, proc, stdout, output, errored, exitCode, view>>
    /\ UNCHANGED <<handler, panel, agentVars>>

\* a 'close' handler that tests if (code): null counts as success
CloseHandlerTruthy(c, im, code) ==
    LET cleaned == Unlink(c, ScriptPath("send", im))
    IN  IF code # Code(0) /\ code # Null
        THEN [cleaned EXCEPT !.promise = reject(@, ExitMessage(code))]
        ELSE [cleaned EXCEPT !.promise = resolve(@, NoValue)]

\* a 'close' handler that leaves the script on disk
CloseHandlerKeepsScript(c, im, code) ==
    IF code # Code(0)
    THEN [c EXCEPT !.promise = reject(@, ExitMessage(code))]
    ELSE [c EXCEPT !.promise = resolve(@, NoValue)]

\* pythonProcess.on('close', ...)
CloseHandler(c, im, code) ==
    LET cleaned == Unlink(c, ScriptPath("send", im))
    IN  IF code # Code(0)
        THEN [cleaned EXCEPT !.promise = reject(@, ExitMessage(code))]
        ELSE [cleaned EXCEPT !.promise = resolve(@, NoValue)]

\* 'close' comes after the last 'data', and after 'error' when the spawn failed
Closes(code) ==
    \/ proc = "running" /\ pos = Len(stdout) /\ code \in ExitCodes
    \/ proc = "spawnfail" /\ errored /\ code = SpawnFailCode

SendClose(code) ==
    /\ kind = "send"
    /\ Closes(code)
    /\ \E c \in {CloseHandler(Closure, impl, code)} : Store(c)
    /\ proc' = "closed"
    /\ exitCode' = code
    /\ UNCHANGED <<kind, impl, stdout, pos, received, delivery, output, errored, view>>
    /\ UNCHANGED <<handler, panel, agentVars>>

\* an 'error' handler that only swallows the event
ErrorHandlerIgnores(c, error) == c

\* pythonProcess.on('error', ...)
ErrorHandler(c, error) == [c EXCEPT !.promise = reject(@, error)]

SendError ==
    /\ kind = "send"
    /\ proc = "spawnfail"
    /\ ~errored
    /\ \E c \in {ErrorHandler(Closure, SpawnError)} : Store(c)
    /\ errored' = TRUE
    /\ UNCHANGED <<kind, impl, proc, stdout, pos, received, delivery, output, exitCode,
                   view>>
    /\ UNCHANGED <<handler, panel, agentVars>>

(***************************************************************************)
(* getSessionHistory and clearSession of AIAgentService.                   *)
(***************************************************************************)
GetSessionHistory(env, out) == Issue("history", "service", env, out)

ClearSession(env, out) == Issue("clear", "service", env, out)

\* pythonProcess.stdout.on('data', (data) => { output += data.toString(); })
CollectData(n) ==
    /\ proc = "running"
    /\ n \in 1..(Len(stdout) - pos)
    /\ output' = output \o toString(Fragment(n))
    /\ pos' = pos + n
    /\ received' = received \o toString(Fragment(n))
    /\ delivery' = IF delivery = "none" THEN "single" ELSE "split"
    /\ UNCHANGED <<kind, impl, proc, stdout, responseBuffer, fullResponse, sink,
                   frames, promise, fs, consoleErrors, errored, exitCode, view>>
    /\ UNCHANGED <<handler, panel, agentVars>>

HistoryData(n) == kind = "history" /\ CollectData(n)

ClearData(n) == kind = "clear" /\ CollectData(n)

\* a mapping that takes every entry for the assistant's
ChatMessageAssistantOnly(entry) ==
    [type |-> "assistant",
     content |-> Member(entry, CONTENT),
     timestamp |-> Member(entry, TIMESTAMP)]

\* one entry of history.map(...); reading a member of null throws
ChatMessage(entry) ==
    [type |-> IF Member(entry, TYPE) = [t |-> "str", v |-> HUMAN]
              THEN "user" ELSE "assistant",
     content |-> Member(entry, CONTENT),
     timestamp |-> Member(entry, TIMESTAMP)]

\* getSessionHistory's 'close' handler
HistoryCloseHandler(c, out, code) ==
    LET cleaned == Unlink(c, ScriptPath("history", "service"))
        history == JsonParse(Trim(out))
    IN  IF code = Code(0)
        THEN IF /\ history.ok
                /\ history.value.t = "arr"
                /\ \A i \in 1..Len(history.value.v) : history.value.v[i] # JsonNull
             THEN [cleaned EXCEPT !.promise =
                      resolve(@, [i \in 1..Len(history.value.v) |->
                                     ChatMessage(history.value.v[i])])]
             ELSE [cleaned EXCEPT !.promise = reject(@, ParseFailure)]
        ELSE [cleaned EXCEPT !.promise = reject(@, HistoryExitMessage(code))]

HistoryClose(code) ==
    /\ kind = "history"
    /\ Closes(code)
    /\ \E c \in {HistoryCloseHandler(Closure, output, code)} : Store(c)
    /\ proc' = "closed"
    /\ exitCode' = code
    /\ UNCHANGED <<kind, impl, stdout, pos, received, delivery, output, errored, view>>
    /\ UNCHANGED <<handler, panel, agentVars>>

\* clearSession's 'close' handler
ClearCloseHandler(c, out, code) ==
    LET cleaned == Unlink(c, ScriptPath("clear", "service"))
    IN  IF code = Code(0) /\ Includes(out, SUCCESS)
        THEN [cleaned EXCEPT !.promise = resolve(@, NoValue)]
        ELSE [cleaned EXCEPT !.promise = reject(@, ClearFailure)]

ClearClose(code) ==
    /\ kind = "clear"
    /\ Closes(code)
    /\ \E c \in {ClearCloseHandler(Closure, output, code)} : Store(c)
    /\ proc' = "closed"
    /\ exitCode' = code
    /\ UNCHANGED <<kind, impl, stdout, pos, received, delivery, output, errored, view>>
    /\ UNCHANGED <<handler, panel, agentVars>>

\* the 'error' handlers of getSessionHistory and clearSession: reject(error)
CollectError ==
    /\ kind \in {"history", "clear"}
    /\ impl = "service"
    /\ proc = "spawnfail"
    /\ ~errored
    /\ \E c \in {ErrorHandler(Closure, SpawnError)} : Store(c)
    /\ errored' = TRUE
    /\ UNCHANGED <<kind, impl, proc, stdout, pos, received, delivery, output, exitCode,
                   view>>
    /\ UNCHANGED <<handler, panel, agentVars>>

(***************************************************************************)
(* ChatViewProvider.clearAgentSession, reached from the webview's          *)
(* clearChat message.  Its 'data' and 'close' handlers are those of        *)
(* clearSession; it registers no 'error' handler.                          *)
(***************************************************************************)
ClearAgentSession(env, out) == view /\ Issue("clear", "view", env, out)

\* emit('error', err) with no listener throws err: the exception leaves the
\* emitter uncaught, and the 'close' that emit would have been followed by
\* is never emitted
UnhandledError ==
    /\ kind = "clear"
    /\ impl = "view"
    /\ proc = "spawnfail"
    /\ ~errored
    /\ errored' = TRUE
    /\ proc' = "threw"
    /\ UNCHANGED <<kind, impl, stdout, pos, received, delivery, responseBuffer, output,
                   fullResponse, sink, frames, promise, fs, consoleErrors, exitCode, view>>
    /\ UNCHANGED <<handler, panel, agentVars>>

Envs == {"ok", "writefail", "spawnfail"}

Next ==
    \/ ResolveWebviewView
    \/ \E env \in Envs, out \in Streams : SendMessage(env, out)
    \/ \E env \in Envs, out \in Streams : SendMessageToAgent(env, out)
    \/ \E n \in 1..Len(stdout) : SendData(n)
    \/ \E code \in ExitCodes \cup {SpawnFailCode} : SendClose(code)
    \/ SendError
    \/ \E env \in Envs, out \in HistoryStreams : GetSessionHistory(env, out)
    \/ \E n \in 1..Len(stdout) : HistoryData(n)
    \/ \E code \in ExitCodes \cup {SpawnFailCode} : HistoryClose(code)
    \/ \E env \in Envs, out \in ClearStreams : ClearSession(env, out)
    \/ \E n \in 1..Len(stdout) : ClearData(n)
    \/ \E code \in ExitCodes \cup {SpawnFailCode} : ClearClose(code)
    \/ CollectError
    \/ \E env \in Envs, out \in ClearStreams : ClearAgentSession(env, out)
    \/ UnhandledError
    \/ HandleSendMessage
    \/ HandleClearChat

Spec == Init /\ [][Next]_vars

(***************************************************************************)
(* The protocol as the specification states it, for the claims below: the  *)
(* class of a line, and the frames of a text's complete lines up to and    *)
(* including the first End or Error.                                       *)
(***************************************************************************)
IsChunk(line) == Len(line) >= 6 /\ SubSeq(line, 1, 6) = CHUNK_PREFIX
IsEnd(line) == line = END_STREAM
IsError(line) == Len(line) >= 6 /\ SubSeq(line, 1, 6) = ERROR_PREFIX
IsTerminal(line) == IsEnd(line) \/ IsError(line)
Recognised(line) == IsChunk(line) \/ IsTerminal(line)
Remainder(line) == SubSeq(line, 7, Len(line))

\* the complete (newline-terminated) lines of a text
LinesOf(text) ==
    LET ends == {i \in 1..Len(text) : text[i] = NL}
        start(e) == IF \E d \in ends : d < e
                    THEN 1 + CHOOSE d \in ends : d < e /\ \A x \in ends : x < e => x <= d
                    ELSE 1
        nth[k \in 0..Cardinality(ends)] ==
            IF k = 0 THEN 0
            ELSE CHOOSE e \in ends : e > nth[k - 1] /\ \A x \in ends : x > nth[k - 1] => e <= x
    IN  [k \in 1..Cardinality(ends) |-> SubSeq(text, start(nth[k]), nth[k] - 1)]

\* the index of the first End or Error line, 0 when there is none
FirstTerminal(ls) ==
    IF \E i \in 1..Len(ls) : IsTerminal(ls[i])
    THEN CHOOSE i \in 1..Len(ls) :
             IsTerminal(ls[i]) /\ \A j \in 1..(i - 1) : ~IsTerminal(ls[j])
    ELSE 0

\* the lines up to and including the first terminal one
Live(ls) == IF FirstTerminal(ls) = 0 THEN ls ELSE SubSeq(ls, 1, FirstTerminal(ls))

FrameOf(line) ==
    IF IsChunk(line) THEN Frame("Chunk", Remainder(line))
    ELSE IF IsEnd(line) THEN Frame("End", <<>>)
    ELSE Frame("Error", Remainder(line))

\* the frames of the lines ls
FramesOf(ls) ==
    LET known == SelectSeq(Live(ls), Recognised)
    IN  [i \in 1..Len(known) |-> FrameOf(known[i])]

\* the frames decoded up to and including the first End or Error
UpToTerminal(fr) ==
    IF \E i \in 1..Len(fr) : fr[i].type # "Chunk"
    THEN SubSeq(fr, 1, CHOOSE i \in 1..Len(fr) :
                           fr[i].type # "Chunk" /\ \A j \in 1..(i - 1) : fr[j].type = "Chunk")
    ELSE fr

\* the texts of the chunks delivered to onChunk or posted as streamChunk
Delivered ==
    LET calls == SelectSeq(sink, LAMBDA m : m.type \in {"onChunk", "streamChunk"})
    IN  [i \in 1..Len(calls) |-> calls[i].text]

\* a handler closure as sendMessage creates it
FreshClosure ==
    [responseBuffer |-> <<>>, fullResponse |-> <<>>, sink |-> <<>>, frames |-> <<>>,
     promise |-> Pending, fs |-> {}, consoleErrors |-> 0]

\* the frames decoded when the bytes arrive in one 'data' event
OneFragment(bytes) == DataHandler(FreshClosure, impl, bytes).frames

\* every fragment so far ended on a character boundary
CharacterAligned == received = toString(SubSeq(stdout, 1, pos))

HelloFrames == <<Frame("Chunk", Hello), Frame("Chunk", World), Frame("End", <<>>)>>

NoChunkAfterTerminal ==
    kind = "send" =>
        \A i, j \in 1..Len(frames) :
            (i < j /\ frames[i].type # "Chunk") => frames[j].type # "Chunk"

(***************************************************************************)
(* C3.  When the process closes while the reassembly buffer holds an       *)
(* unterminated final line and no terminal frame was decoded before, the   *)
(* held text is decoded as a final line: its frame is the last one         *)
(* decoded.                                                                *)
(***************************************************************************)
HeldLineFlushedOnClose ==
    (/\ kind = "send"
     /\ proc = "closed"
     /\ Recognised(responseBuffer)
     /\ \A i \in 1..Len(frames) : frames[i].type = "Chunk") =>
        /\ frames # <<>>
        /\ frames[Len(frames)] = FrameOf(responseBuffer)

(***************************************************************************)
(* C4.  When the first terminal line the handler receives begins with      *)
(* ERROR:, the promise is rejected with exactly the rest of that line, and *)
(* stays so whatever the process's exit code is.                           *)
(***************************************************************************)
ErrorFrameRejectsWithItsMessage ==
    kind = "send" =>
        LET ls == LinesOf(received)
            t == FirstTerminal(ls)
        IN  (t # 0 /\ IsError(ls[t])) =>
                promise = [state |-> "rejected", value |-> Remainder(ls[t])]

\* an ERROR: line was decoded and the process then exited with code 0
ErrorFrameThenCleanExit ==
    /\ kind = "send"
    /\ proc = "closed"
    /\ exitCode = Code(0)
    /\ LinesOf(received) # <<>>
    /\ IsError(LinesOf(received)[1])
    /\ promise = [state |-> "rejected", value |-> <<"x">>]

(***************************************************************************)
(* C5.  First terminal wins: when END_STREAM was decoded first, the        *)
(* promise is fulfilled and stays fulfilled, also after the process closes *)
(* with a non-zero code.                                                   *)
(***************************************************************************)
EndFrameOutcomeStands ==
    kind = "send" =>
        LET ls == LinesOf(received)
            t == FirstTerminal(ls)
        IN  (t # 0 /\ IsEnd(ls[t])) => promise = [state |-> "fulfilled", value |-> NoValue]

\* END_STREAM was decoded and the process then exited with code 1
EndFrameThenAbnormalExit ==
    /\ kind = "send"
    /\ proc = "closed"
    /\ exitCode = Code(1)
    /\ FirstTerminal(LinesOf(received)) # 0
    /\ IsEnd(LinesOf(received)[FirstTerminal(LinesOf(received))])
    /\ promise.state = "fulfilled"

(***************************************************************************)
(* C6.  A request's promise (send, getHistory, clear) settles at most      *)
(* once: once it is fulfilled or rejected, no later 'data', 'close' or     *)
(* 'error' event changes its state, its value or its reason.               *)
(***************************************************************************)
PromiseSettlesOnce ==
    [][promise.state # "pending" => promise' = promise]_vars

\* 'error' rejected a clear request and 'close' then rejected it again
RejectedTwice ==
    /\ kind = "clear"
    /\ proc = "closed"
    /\ errored
    /\ promise = [state |-> "rejected", value |-> SpawnError]

(***************************************************************************)
(* C7.  As claimed: when the process closes with a code other than 0 and   *)
(* no End or Error frame was decoded, send's promise is rejected with      *)
(* "Python process exited with code N".                                    *)
(***************************************************************************)
AbnormalExitRejectsWithCode ==
    (/\ kind = "send"
     /\ proc = "closed"
     /\ exitCode # Code(0)
     /\ \A i \in 1..Len(frames) : frames[i].type = "Chunk") =>
        promise = [state |-> "rejected", value |-> ExitMessage(exitCode)]

(***************************************************************************)
(* C7, amended.  When a process that was spawned (it emitted no 'error')   *)
(* closes with a code other than 0 and no End or Error frame was decoded,  *)
(* send's promise is rejected with "Python process exited with code N".    *)
(***************************************************************************)
SpawnedAbnormalExitRejectsWithCode ==
    (/\ kind = "send"
     /\ proc = "closed"
     /\ ~errored
     /\ exitCode # Code(0)
     /\ \A i \in 1..Len(frames) : frames[i].type = "Chunk") =>
        promise = [state |-> "rejected", value |-> ExitMessage(exitCode)]

\* a signal ended the process after a chunk and before any terminal frame
KilledAfterChunk ==
    /\ kind = "send"
    /\ proc = "closed"
    /\ ~errored
    /\ exitCode = Null
    /\ frames # <<>>
    /\ \A i \in 1..Len(frames) : frames[i].type = "Chunk"
    /\ promise = [state |-> "rejected", value |-> ExitMessage(Null)]

(***************************************************************************)
(* C8.  send's promise is fulfilled only if an End frame was decoded for   *)
(* the request.                                                            *)
(***************************************************************************)
FulfilledOnlyAfterEndFrame ==
    (kind = "send" /\ promise.state = "fulfilled") =>
        \E i \in 1..Len(frames) : frames[i].type = "End"

(***************************************************************************)
(* C9.  The chunks are delivered in the order of their CHUNK: lines: the   *)
(* texts delivered begin with the contents of the CHUNK: lines that        *)
(* precede the first terminal line, each once and in that order; they are  *)
(* the chunks decoded before the terminal frame, and while no terminal     *)
(* line was received nothing else was delivered.                           *)
(***************************************************************************)
ChunkTexts(fr) ==
    LET chunks == SelectSeq(fr, LAMBDA f : f.type = "Chunk")
    IN  [i \in 1..Len(chunks) |-> chunks[i].text]

ChunksDeliveredInOrder ==
    kind = "send" =>
        LET ls == LinesOf(received)
            expected == ChunkTexts(FramesOf(ls))
        IN  /\ Len(Delivered) >= Len(expected)
            /\ SubSeq(Delivered, 1, Len(expected)) = expected
            /\ ChunkTexts(UpToTerminal(frames)) = expected
            /\ FirstTerminal(ls) = 0 => Delivered = expected

\* two different chunks, delivered in several fragments, and then the End frame
TwoChunksThenEnd ==
    /\ kind = "send"
    /\ delivery = "split"
    /\ proc = "closed"
    /\ Delivered = <<Hello, World>>
    /\ promise.state = "fulfilled"

(***************************************************************************)
(* C10.  A complete line that is no CHUNK:, END_STREAM or ERROR: line is   *)
(* skipped: while the process runs, the frames decoded up to the first     *)
(* terminal frame and the chunks delivered are those of the recognised     *)
(* lines alone, and the promise is pending exactly when none of the lines  *)
(* received is a terminal line.                                            *)
(***************************************************************************)
UnrecognisedLinesSkipped ==
    (kind = "send" /\ proc = "running") =>
        LET ls == LinesOf(received)
            known == SelectSeq(ls, Recognised)
        IN  /\ UpToTerminal(frames) = FramesOf(known)
            /\ SubSeq(Delivered, 1, Len(ChunkTexts(FramesOf(known))))
                   = ChunkTexts(FramesOf(known))
            /\ promise.state = "pending" <=> FirstTerminal(known) = 0

\* an empty line and another unrecognised line, then a chunk that is delivered
ChunkAfterUnrecognisedLines ==
    /\ kind = "send"
    /\ proc = "running"
    /\ promise.state = "pending"
    /\ Len(LinesOf(received)) = 2
    /\ ~Recognised(LinesOf(received)[1])
    /\ IsChunk(LinesOf(received)[2])
    /\ Len(Delivered) = 1

(***************************************************************************)
(* C11.  The classification of a complete line is total and decided by the *)
(* line alone: a line beginning with CHUNK: is a Chunk whose content is    *)
(* all of the rest (which may be empty, or hold END_STREAM or ERROR:), a   *)
(* line is an End frame only when it is END_STREAM exactly, a line         *)
(* beginning with ERROR: is an Error whose message is all of the rest, and *)
(* any other line is no frame.  Stated of a request that has received one  *)
(* complete line.                                                          *)
(***************************************************************************)
ClassificationTotal ==
    (kind = "send" /\ proc = "running" /\ Len(LinesOf(received)) = 1) =>
        LET line == LinesOf(received)[1]
            rest == SubSeq(line, 7, Len(line))
        IN  /\ IsChunk(line) =>
                   /\ frames = <<Frame("Chunk", rest)>>
                   /\ Delivered = <<rest>>
                   /\ promise = Pending
            /\ line = END_STREAM =>
                   /\ frames = <<Frame("End", <<>>)>>
                   /\ promise = [state |-> "fulfilled", value |-> NoValue]
            /\ line # END_STREAM => \A i \in 1..Len(frames) : frames[i].type # "End"
            /\ IsError(line) =>
                   /\ frames = <<Frame("Error", rest)>>
                   /\ promise = [state |-> "rejected", value |-> rest]
            /\ ~Recognised(line) => (frames = <<>> /\ promise = Pending)
            /\ ~IsChunk(line) => Delivered = <<>>

\* a CHUNK: line whose content is the end marker was delivered as a chunk,
\* and the request is still pending
ChunkHoldingEndMarker ==
    /\ kind = "send"
    /\ proc = "running"
    /\ received = ChunkLine(END_STREAM) \o <<NL>>
    /\ frames = <<Frame("Chunk", END_STREAM)>>
    /\ Delivered = <<END_STREAM>>
    /\ promise = Pending

(***************************************************************************)
(* C12.  Every request that writes a temporary script deletes it on every  *)
(* exit path: once the request's process has no more events to deliver     *)
(* (it closed after an End frame, an Error frame, a non-zero exit, a       *)
(* signal or a failed spawn), the script is gone.                          *)
(***************************************************************************)
\* the process of the request will emit nothing more
NoMoreEvents == proc \in {"closed", "threw"}

TempScriptDeletedOnEveryPath ==
    (kind # "none" /\ NoMoreEvents) => ScriptPath(kind, impl) \notin fs

(***************************************************************************)
(* C13.  Deleting the temporary script never escalates: a deletion that    *)
(* fails (the End-frame branch already deleted the file) is logged and     *)
(* nothing else.  Every failed deletion of a closed request is one logged  *)
(* error, one for each End frame decoded; the 'data' and 'close' handlers  *)
(* settle the promise the same way whether the file is there for them to   *)
(* delete or not, and 'close' leaves no file behind in either case.        *)
(***************************************************************************)
EndFrames == {i \in 1..Len(frames) : frames[i].type = "End"}

\* the closure when the script is on disk, and when it is not
ScriptPresent == [Closure EXCEPT !.fs = @ \cup {ScriptPath("send", impl)}]
ScriptAbsent == [Closure EXCEPT !.fs = @ \ {ScriptPath("send", impl)}]

CleanupNeverEscalates ==
    kind = "send" =>
        /\ proc = "closed" =>
               /\ consoleErrors = Cardinality(EndFrames)
               /\ ScriptPath("send", impl) \notin fs
        /\ (proc = "running" /\ pos = Len(stdout)) =>
               \A code \in ExitCodes :
                   /\ CloseHandler(ScriptAbsent, impl, code).promise
                          = CloseHandler(ScriptPresent, impl, code).promise
                   /\ CloseHandler(ScriptAbsent, impl, code).fs
                          = CloseHandler(ScriptPresent, impl, code).fs
                   /\ CloseHandler(ScriptAbsent, impl, code).consoleErrors
                          = consoleErrors + 1
        /\ proc = "running" =>
               \A n \in 1..(Len(stdout) - pos) :
                   /\ DataHandler(ScriptAbsent, impl, Fragment(n)).promise
                          = DataHandler(ScriptPresent, impl, Fragment(n)).promise
                   /\ DataHandler(ScriptAbsent, impl, Fragment(n)).sink
                          = DataHandler(ScriptPresent, impl, Fragment(n)).sink

\* the End-frame branch deleted the script and resolved; the 'close' handler's
\* deletion then failed, was logged, and left the outcome alone
SecondDeletionLogged ==
    /\ kind = "send"
    /\ proc = "closed"
    /\ exitCode = Code(0)
    /\ Cardinality(EndFrames) = 1
    /\ consoleErrors = 1
    /\ fs = {}
    /\ promise = [state |-> "fulfilled", value |-> NoValue]

(***************************************************************************)
(* C15.  When the process of a send cannot be started, the request fails   *)
(* at once: if the script cannot be written the promise is rejected with   *)
(* the write error before anything is spawned, if the spawn fails the      *)
(* promise is rejected with the spawn error when 'error' is emitted and    *)
(* stays so after 'close'; no chunk is ever delivered and no process of    *)
(* the request ever runs (no second spawn).                                *)
(***************************************************************************)
SpawnFailureFailsRequest ==
    kind = "send" =>
        /\ proc = "none" => promise = [state |-> "rejected", value |-> WriteError]
        /\ errored => promise = [state |-> "rejected", value |-> SpawnError]
        /\ (proc \in {"none", "spawnfail"} \/ errored) =>
               /\ proc # "running"
               /\ stdout = <<>>
               /\ frames = <<>>
               /\ sink = <<>>
        /\ (proc = "spawnfail" /\ ~errored) => promise = Pending

\* the spawn of a send failed: 'error' rejected it, 'close' followed
SpawnFailedAndClosed ==
    /\ kind = "send"
    /\ proc = "closed"
    /\ errored
    /\ exitCode = SpawnFailCode
    /\ sink = <<>>
    /\ promise = [state |-> "rejected", value |-> SpawnError]

(***************************************************************************)
(* C17.  When the process of a send in flight is killed before any         *)
(* terminal frame was decoded, the pending promise is rejected with the    *)
(* error that reports the termination ("Python process exited with code    *)
(* null"), and the cleanup of every terminal transition runs: the          *)
(* temporary script is removed, the chunks delivered are those decoded     *)
(* before the kill, and nothing is delivered afterwards.                   *)
(***************************************************************************)
KilledBeforeTerminal ==
    /\ kind = "send"
    /\ proc = "closed"
    /\ exitCode = Null
    /\ \A i \in 1..Len(frames) : frames[i].type = "Chunk"

ProcessFailuresContained ==
    kind # "none" =>
        /\ proc # "threw"
        /\ errored => promise.state = "rejected"
        /\ (proc = "closed" /\ exitCode # Code(0) /\ EndFrames = {}) =>
               promise.state = "rejected"

(***************************************************************************)
(* C19.  getHistory tells its failures apart: a non-zero exit rejects with *)
(* "Failed to get history, exit code: N", and "Failed to parse history     *)
(* response" is the rejection only of a process that exited 0 and wrote    *)
(* something that is no history; a failure the agent reported (the         *)
(* script's ERROR: line) or a failed spawn is never reported as a parse    *)
(* failure.                                                                *)
(***************************************************************************)
\* the script's except branch wrote the output: print(f"ERROR:{str(e)}")
AgentReportedFailure(out) == Len(out) >= 6 /\ SubSeq(out, 1, 6) = ERROR_PREFIX

HistoryFailureKindsDistinct ==
    (kind = "history" /\ proc = "closed") =>
        /\ (~errored /\ exitCode # Code(0)) =>
               promise = [state |-> "rejected", value |-> HistoryExitMessage(exitCode)]
        /\ promise = [state |-> "rejected", value |-> ParseFailure] =>
               /\ exitCode = Code(0)
               /\ ~errored
               /\ ~AgentReportedFailure(output)

(***************************************************************************)
(* C20.  Every issued request settles: a request whose promise is pending  *)
(* is never stuck, some event of its process is still to come.             *)
(***************************************************************************)
PendingRequestNeverStuck ==
    (kind # "none" /\ promise.state = "pending") => ENABLED Next

(***************************************************************************)
(* Requests in flight together.  Each request writes its script and spawns *)
(* its process in one step of the event loop; the process opens the script *)
(* at its path some time later, runs it and exits; the request's 'data'    *)
(* and 'close' handlers then run.  The output arrives in one fragment.     *)
(***************************************************************************)
ConcurrentInit ==
    /\ Idle
    /\ view = FALSE
    /\ currentSessionId = "vscode_session"
    /\ lastSet = "vscode_session"
    /\ yielded = <<>>
    /\ raised = FALSE
    /\ sentMessage = <<>>
    /\ sentSession = "vscode_session"
    /\ pythonScript = <<>>
    /\ agentCall = NotRun
    /\ files = [p \in Paths |-> NoFile]
    /\ reqs = <<>>
    /\ logs \in [Sessions -> {<<>>, <<"m">>}]

\* fs.writeFileSync(scriptPath, pythonScript); spawn('python', [scriptPath], ...)
Start(op, im, sessionId, current, prompt) ==
    /\ Len(reqs) < MaxRequests
    /\ files' = [files EXCEPT ![ScriptPath(op, im)] =
                     Script(op, prompt, SessionOr(sessionId, current))]
    /\ reqs' = Append(reqs, NewRequest(op, im, sessionId, current, prompt))
    /\ UNCHANGED <<requestVars, view, logs, registerVars, runVars, scriptVars>>

\* sendMessage(message, onChunk, sessionId)
StartSendMessage(sessionId, prompt) ==
    Start("send", "service", sessionId, currentSessionId, prompt)

\* sendMessageToAgent(message): the session is the view's own
\* currentSessionId, which nothing assigns
StartSendMessageToAgent(prompt) ==
    view /\ Start("send", "view", Omitted, "vscode_session", prompt)

\* getSessionHistory(sessionId)
StartGetSessionHistory(sessionId) ==
    Start("history", "service", sessionId, currentSessionId, "")

\* clearSession(sessionId)
StartClearSession(sessionId) ==
    Start("clear", "service", sessionId, currentSessionId, "")

\* clearAgentSession(): the session is the view's own currentSessionId
StartClearAgentSession ==
    view /\ Start("clear", "view", Omitted, "vscode_session", "")

\* a getter that answers the initial session
getInitialSessionId == "vscode_session"

\* getCurrentSessionId()
getCurrentSessionId == currentSessionId

\* setSessionId(sessionId)
SetSessionId(sessionId) ==
    /\ currentSessionId' = sessionId
    /\ lastSet' = sessionId
    /\ UNCHANGED <<requestVars, view, files, reqs, logs, runVars, scriptVars>>

\* python opens the file named by its argument: what the path holds then
LoadScript(i) ==
    /\ reqs[i].phase = "spawned"
    /\ reqs' = [reqs EXCEPT ![i].phase = "loaded",
                            ![i].ran = files[ScriptPath(reqs[i].op, reqs[i].impl)]]
    /\ UNCHANGED <<requestVars, view, files, logs, registerVars, runVars, scriptVars>>

\* print(f"CHUNK:{chunk}", end="") for each chunk, then print("\nEND_STREAM")
StreamedOutput == ChunkLine(<<"r">>) \o <<NL>> \o END_STREAM \o <<NL>>

\* print(json.dumps(history)): the agent's history of a log, one entry for a message
RECURSIVE HistoryEntries(_)
HistoryEntries(log) ==
    IF log = <<>> THEN <<>>
    ELSE EntryText(HUMAN, <<Head(log)>>, <<"1">>)
             \o (IF Tail(log) = <<>> THEN <<>> ELSE <<",", " ">> \o HistoryEntries(Tail(log)))

HistoryOutput(log) == <<"[">> \o HistoryEntries(log) \o <<"]", NL>>

\* the process runs the script it loaded and exits: python fails with status
\* 2 when the file is gone; the script catches the agent's exception, prints
\* ERROR: and ends normally
RunScript(i, ok) ==
    LET script == reqs[i].ran
        ran(out, code) ==
            reqs' = [reqs EXCEPT ![i].phase = "exited", ![i].stdout = out, ![i].code = code]
    IN  /\ reqs[i].phase = "loaded"
        /\ IF script = NoFile
           THEN ok /\ ran(<<>>, Code(2)) /\ UNCHANGED logs
           ELSE IF ~ok
           THEN ran(ErrorLine(<<"x">>) \o <<NL>>, Code(0)) /\ UNCHANGED logs
           ELSE IF script.op = "history"
           THEN ran(HistoryOutput(logs[script.session]), Code(0)) /\ UNCHANGED logs
           ELSE IF script.op = "clear"
           THEN /\ logs' = clear_session(logs, script.session)
                /\ reqs' = [reqs EXCEPT ![i].phase = "exited",
                                        ![i].stdout = SUCCESS \o <<NL>>,
                                        ![i].code = Code(0),
                                        ![i].emptied = @ \cup {script.session}]
           ELSE /\ logs' = stream_response(logs, script.prompt, script.session)
                /\ ran(StreamedOutput, Code(0))
        /\ UNCHANGED <<requestVars, view, files, registerVars, runVars, scriptVars>>

\* the variables the handlers of request r share, with the files of now
ReqClosure(r) ==
    [responseBuffer |-> r.responseBuffer, fullResponse |-> r.fullResponse,
     sink |-> r.sink, frames |-> r.frames, promise |-> r.promise,
     fs |-> {p \in Paths : files[p] # NoFile}, consoleErrors |-> r.consoleErrors]

StoreReq(i, c, out, phase) ==
    /\ reqs' = [reqs EXCEPT ![i].responseBuffer = c.responseBuffer,
                            ![i].fullResponse = c.fullResponse,
                            ![i].sink = c.sink,
                            ![i].frames = c.frames,
                            ![i].promise = c.promise,
                            ![i].consoleErrors = c.consoleErrors,
                            ![i].output = out,
                            ![i].phase = phase]
    /\ files' = [p \in Paths |-> IF p \in c.fs THEN files[p] ELSE NoFile]

\* the 'data' handler of request i
DeliverData(i) ==
    /\ reqs[i].phase = "exited"
    /\ reqs[i].stdout # <<>>
    /\ IF reqs[i].op = "send"
       THEN \E c \in {DataHandler(ReqClosure(reqs[i]), reqs[i].impl, reqs[i].stdout)} :
                StoreReq(i, c, reqs[i].output, "read")
       ELSE StoreReq(i, ReqClosure(reqs[i]),
                     reqs[i].output \o toString(reqs[i].stdout), "read")
    /\ UNCHANGED <<requestVars, view, logs, registerVars, runVars, scriptVars>>

\* the 'close' handler of request i
Close(i) ==
    /\ \/ reqs[i].phase = "read"
       \/ reqs[i].phase = "exited" /\ reqs[i].stdout = <<>>
    /\ IF reqs[i].op = "send"
       THEN \E c \in {CloseHandler(ReqClosure(reqs[i]), reqs[i].impl, reqs[i].code)} :
                StoreReq(i, c, reqs[i].output, "closed")
       ELSE IF reqs[i].op = "history"
       THEN \E c \in {HistoryCloseHandler(ReqClosure(reqs[i]), reqs[i].output,
                                           reqs[i].code)} :
                StoreReq(i, c, reqs[i].output, "closed")
       ELSE \E c \in {ClearCloseHandler(ReqClosure(reqs[i]), reqs[i].output,
                                         reqs[i].code)} :
                StoreReq(i, c, reqs[i].output, "closed")
    /\ UNCHANGED <<requestVars, view, logs, registerVars, runVars, scriptVars>>

\* resolveWebviewView, with requests in flight
ResolveView ==
    /\ ~view
    /\ view' = TRUE
    /\ UNCHANGED <<requestVars, agentVars>>

ConcurrentNext ==
    \/ ResolveView
    \/ \E sessionId \in SessionIds, prompt \in Prompts : StartSendMessage(sessionId, prompt)
    \/ \E prompt \in Prompts : StartSendMessageToAgent(prompt)
    \/ \E sessionId \in SessionIds : StartGetSessionHistory(sessionId)
    \/ \E sessionId \in SessionIds : StartClearSession(sessionId)
    \/ StartClearAgentSession
    \/ \E sessionId \in Sessions : SetSessionId(sessionId)
    \/ \E i \in 1..Len(reqs) : LoadScript(i)
    \/ \E i \in 1..Len(reqs), ok \in BOOLEAN : RunScript(i, ok)
    \/ \E i \in 1..Len(reqs) : DeliverData(i)
    \/ \E i \in 1..Len(reqs) : Close(i)

Concurrent == ConcurrentInit /\ [][ConcurrentNext]_vars

(***************************************************************************)
(* The service and its current-session register alone: requests of the     *)
(* three operations of AIAgentService whose agent succeeds, interleaved    *)
(* with setSessionId.                                                      *)
(***************************************************************************)
RegisterInit ==
    /\ ConcurrentInit
    /\ logs = [s \in Sessions |-> <<"m">>]

RegisterNext ==
    \/ \E sessionId \in SessionIds : StartSendMessage(sessionId, "p")
    \/ \E sessionId \in SessionIds : StartGetSessionHistory(sessionId)
    \/ \E sessionId \in SessionIds : StartClearSession(sessionId)
    \/ \E sessionId \in Sessions : SetSessionId(sessionId)
    \/ \E i \in 1..Len(reqs) : LoadScript(i)
    \/ \E i \in 1..Len(reqs) : RunScript(i, TRUE)
    \/ \E i \in 1..Len(reqs) : DeliverData(i)
    \/ \E i \in 1..Len(reqs) : Close(i)

Register == RegisterInit /\ [][RegisterNext]_vars

(***************************************************************************)
(* C14.  One process is spawned for each request, and whatever the         *)
(* interleaving of the requests in flight (requests of different sessions) *)
(* the process of a request runs the script of that request: its own       *)
(* prompt and its own session id, never those of another request.          *)
(***************************************************************************)
DifferentSessions ==
    \A i, j \in 1..Len(reqs) : i # j => reqs[i].session # reqs[j].session

ProcessRunsOwnScript ==
    DifferentSessions =>
        \A i \in 1..Len(reqs) :
            reqs[i].phase # "spawned" =>
                reqs[i].ran = Script(reqs[i].op, reqs[i].prompt, reqs[i].session)

(***************************************************************************)
(* C16.  Session isolation: a clear request for a session that resolved    *)
(* has emptied the log of that session, and of no other session.           *)
(***************************************************************************)
ClearEmptiesOwnSessionOnly ==
    \A i \in 1..Len(reqs) :
        (reqs[i].op = "clear" /\ reqs[i].promise.state = "fulfilled") =>
            reqs[i].emptied = {reqs[i].session}

(***************************************************************************)
(* C21.  The current-session register: getCurrentSessionId answers the     *)
(* argument of the most recent setSessionId (the initial session before    *)
(* any), no step of a send, history or clear request changes the register, *)
(* and a request of the service issued without a session id runs against   *)
(* the session that was current at the moment of the call.                 *)
(***************************************************************************)
RequestStep == reqs' # reqs \/ files' # files \/ logs' # logs

\* the request a step has just issued
Newest == reqs'[Len(reqs')]
Issued == Len(reqs') = Len(reqs) + 1

CurrentSessionRegister ==
    /\ [](getCurrentSessionId = lastSet)
    /\ [][RequestStep => currentSessionId' = currentSessionId]_vars
    /\ [][(Issued /\ Newest.impl = "service" /\ Newest.sessionId = Omitted) =>
             Newest.session = getCurrentSessionId]_vars

\* a request issued without a session id while B was current has closed
\* after the register was set back
DefaultedRequestAfterSet ==
    \E i \in 1..Len(reqs) :
        /\ reqs[i].impl = "service" /\ reqs[i].sessionId = Omitted
        /\ reqs[i].session = "B" /\ reqs[i].phase = "closed"
        /\ getCurrentSessionId = "vscode_session"

(***************************************************************************)
(* A send end to end: the generated script runs stream_response, prints    *)
(* what it yields and what it raises, and the handlers of the send decode  *)
(* the output.  The script catches the exception, so python exits with 0.  *)
(***************************************************************************)
MaxChunks == 2

\* the newline-free chunks an agent yields, and str(e) of what it raises
ChunkTextsYielded == {<<"a">>, <<"b">>}
ExceptionText == <<"x">>

RECURSIVE ChunkSeqs(_)
ChunkSeqs(n) ==
    IF n = 0 THEN {<<>>}
    ELSE ChunkSeqs(n - 1)
             \cup {Append(cs, t) : cs \in ChunkSeqs(n - 1), t \in ChunkTextsYielded}

\* print(f"CHUNK:{chunk}", end="", flush=True) for each chunk yielded
RECURSIVE PrintChunks(_)
PrintChunks(chunks) ==
    IF chunks = <<>> THEN <<>>
    ELSE ChunkLine(Head(chunks)) \o PrintChunks(Tail(chunks))

\* the stdout of the generated script: print("\nEND_STREAM") after the
\* loop, print(f"ERROR:{str(e)}") in the except clause
ScriptOutput(chunks, raise) ==
    PrintChunks(chunks)
        \o (IF raise THEN ErrorLine(ExceptionText) \o <<NL>>
                      ELSE <<NL>> \o END_STREAM \o <<NL>>)

\* a send whose process runs the generated script against an agent that
\* yields chunks and then raises or completes
RunGeneratedScript(im, chunks, raise) ==
    /\ im = "view" => view
    /\ Executor("send", im, "ok", ScriptOutput(chunks, raise))
    /\ yielded' = chunks
    /\ raised' = raise
    /\ UNCHANGED <<files, reqs, logs, registerVars, scriptVars>>

EndToEndNext ==
    \/ ResolveWebviewView
    \/ \E im \in {"service", "view"}, chunks \in ChunkSeqs(MaxChunks), raise \in BOOLEAN :
           RunGeneratedScript(im, chunks, raise)
    \/ \E n \in 1..Len(stdout) : SendData(n)
    \/ SendClose(Code(0))

EndToEnd == Init /\ [][EndToEndNext]_vars

(***************************************************************************)
(* C22.  Whenever the agent raises an exception during a send, also after  *)
(* it yielded chunks, the consumer gets an Error frame and the promise of  *)
(* the send is rejected with the exception's message.                      *)
(***************************************************************************)
AgentExceptionRejects ==
    (kind = "send" /\ raised /\ proc = "closed") =>
        /\ \E i \in 1..Len(frames) : frames[i] = Frame("Error", ExceptionText)
        /\ promise = [state |-> "rejected", value |-> ExceptionText]

(***************************************************************************)
(* C23.  When the agent yields newline-free chunks and completes, the      *)
(* texts onChunk received, in order, are the texts the agent yielded.      *)
(***************************************************************************)
YieldedChunksDelivered ==
    (kind = "send" /\ ~raised /\ proc = "closed") => Delivered = yielded

(***************************************************************************)
(* C24.  With requests in flight at once, the cleanup of one request never *)
(* removes the temporary script that the process of another request in     *)
(* flight has not read yet: the script of a spawned process that has not   *)
(* opened its file is still there.                                         *)
(***************************************************************************)
CleanupSparesUnreadScripts ==
    \A i \in 1..Len(reqs) :
        reqs[i].phase = "spawned" =>
            files[ScriptPath(reqs[i].op, reqs[i].impl)] # NoFile

(***************************************************************************)
(* C25.  In sendMessageToAgent the accumulated response is always the      *)
(* concatenation, in order, of the chunk texts posted as streamChunk, and  *)
(* the final assistant addMessage is posted at most once for a request,    *)
(* when the End frame is decoded, with the accumulation as its content.    *)
(***************************************************************************)
RECURSIVE Flatten(_)
Flatten(texts) == IF texts = <<>> THEN <<>> ELSE Head(texts) \o Flatten(Tail(texts))

\* the chunk texts posted before position n of the sink
PostedBefore(n) ==
    LET posts == SelectSeq(SubSeq(sink, 1, n - 1), LAMBDA m : m.type = "streamChunk")
    IN  [i \in 1..Len(posts) |-> posts[i].text]

FinalMessages == {n \in 1..Len(sink) : sink[n].type = "addMessage"}

ResponseAccumulatedPostedOnce ==
    (kind = "send" /\ impl = "view") =>
        /\ fullResponse = Flatten(Delivered)
        /\ \A n \in FinalMessages : sink[n].text = Flatten(PostedBefore(n))
        /\ Cardinality(FinalMessages) =
               Cardinality({i \in 1..Len(frames) : frames[i].type = "End"})
        /\ Cardinality(FinalMessages) <= 1

(***************************************************************************)
(* The prompt in the generated script.  sendMessage puts the message       *)
(* between double quotes in the python source, with every double quote     *)
(* replaced by backslash-quote, and the session between double quotes as   *)
(* it is; python reads the two string literals back.                       *)
(***************************************************************************)
MaxPromptLen == 2

QUOTE == "\""
APOS == "'"
BACKSLASH == "\\"
BEL == "x07"

PromptAlphabet == {"a", "n", QUOTE, BACKSLASH, NL}

RECURSIVE PromptStrings(_)
PromptStrings(n) ==
    IF n = 0 THEN {<<>>}
    ELSE PromptStrings(n - 1)
             \cup {Append(m, ch) : m \in PromptStrings(n - 1), ch \in PromptAlphabet}

\* a prompt that closes the literal and supplies its own second argument
Injection == <<BACKSLASH, QUOTE, ",", " ", APOS, "B", APOS, ")", ":", "#">>

\* the characters of a session id
SessionText(session) ==
    IF session = "B" THEN <<"B">>
    ELSE <<"v", "s", "c", "o", "d", "e", "_", "s", "e", "s", "s", "i", "o", "n">>

\* message.replace(/"/g, '\\"')
RECURSIVE Escape(_)
Escape(text) ==
    IF text = <<>> THEN <<>>
    ELSE (IF Head(text) = QUOTE THEN <<BACKSLASH, QUOTE>> ELSE <<Head(text)>>)
             \o Escape(Tail(text))

\* agent.stream_response("${message.replace(...)}", "${session}"):
CallLine(text, session) ==
    <<QUOTE>> \o Escape(text) \o <<QUOTE, ",", " ", QUOTE>> \o SessionText(session)
        \o <<QUOTE, ")", ":">>

\* python reading a string literal opened by quote q, from position i: the
\* escapes \\, \", \', \n and \a, the backslash-newline continuation, any
\* other backslash kept; a raw newline or the end of the text inside the literal
\* is a syntax error
RECURSIVE ParseLiteral(_, _, _, _)
ParseLiteral(text, i, q, acc) ==
    IF i > Len(text) \/ text[i] = NL THEN [ok |-> FALSE, value |-> acc, next |-> i]
    ELSE IF text[i] = q THEN [ok |-> TRUE, value |-> acc, next |-> i + 1]
    ELSE IF text[i] # BACKSLASH THEN ParseLiteral(text, i + 1, q, Append(acc, text[i]))
    ELSE IF i + 1 > Len(text) THEN [ok |-> FALSE, value |-> acc, next |-> i]
    ELSE LET e == text[i + 1]
         IN  ParseLiteral(text, i + 2, q,
                          IF e \in {BACKSLASH, QUOTE, APOS} THEN Append(acc, e)
                          ELSE IF e = "n" THEN Append(acc, NL)
                          ELSE IF e = "a" THEN Append(acc, BEL)
                          ELSE IF e = NL THEN acc
                          ELSE acc \o <<BACKSLASH, e>>)

SyntaxError == [status |-> "SyntaxError", prompt |-> <<>>, session |-> <<>>]

At(text, i) == IF i \in 1..Len(text) THEN text[i] ELSE ""

\* python reading the call line: two literals separated by a comma, the
\* closing parenthesis and colon, then nothing but a comment
PythonCall(text) ==
    LET first == ParseLiteral(text, 2, QUOTE, <<>>)
        j == IF At(text, first.next + 1) = " " THEN first.next + 2 ELSE first.next + 1
        second == ParseLiteral(text, j + 1, At(text, j), <<>>)
        k == second.next
    IN  IF ~first.ok \/ At(text, first.next) # "," \/ At(text, j) \notin {QUOTE, APOS}
        THEN SyntaxError
        ELSE IF ~second.ok \/ At(text, k) # ")" \/ At(text, k + 1) # ":"
        THEN SyntaxError
        ELSE IF k + 1 < Len(text)
                  /\ (text[k + 2] # "#" \/ \E x \in (k + 2)..Len(text) : text[x] = NL)
        THEN SyntaxError
        ELSE [status |-> "called", prompt |-> first.value, session |-> second.value]

\* the executor of a send builds the script
WriteScript ==
    /\ pythonScript = <<>>
    /\ pythonScript' = CallLine(sentMessage, sentSession)
    /\ UNCHANGED <<requestVars, view, files, reqs, logs, registerVars, runVars,
                   sentMessage, sentSession, agentCall>>

\* python compiles the script and reaches the call
RunPython ==
    /\ pythonScript # <<>>
    /\ agentCall = NotRun
    /\ agentCall' = PythonCall(pythonScript)
    /\ UNCHANGED <<requestVars, view, files, reqs, logs, registerVars, runVars,
                   sentMessage, sentSession, pythonScript>>

InterpolationInit ==
    /\ Idle
    /\ view = FALSE
    /\ currentSessionId = "vscode_session"
    /\ lastSet = "vscode_session"
    /\ yielded = <<>>
    /\ raised = FALSE
    /\ files = [p \in Paths |-> NoFile]
    /\ reqs = <<>>
    /\ logs = [s \in Sessions |-> <<>>]
    /\ sentMessage \in PromptStrings(MaxPromptLen) \cup {Injection}
    /\ sentSession \in Sessions
    /\ pythonScript = <<>>
    /\ agentCall = NotRun

InterpolationNext == WriteScript \/ RunPython

Interpolation == InterpolationInit /\ [][InterpolationNext]_vars

(***************************************************************************)
(* C26.  The prompt is passed to the agent as data: for every prompt over  *)
(* an alphabet with the double quote, the backslash and the newline, the   *)
(* script calls stream_response with the prompt given to send and with the *)
(* session of the request.                                                 *)
(***************************************************************************)
PromptPassedAsData ==
    agentCall # NotRun =>
        agentCall = [status |-> "called", prompt |-> sentMessage,
                     session |-> SessionText(sentSession)]

(***************************************************************************)
(* C27.  The session of a request is fixed when the request is issued: an  *)
(* explicit session id is the one used, a request issued without one takes *)
(* the session current at that moment, a setSessionId while requests are   *)
(* in flight changes no request, script or log, and the process of a lone  *)
(* request runs against the session fixed at issuance.                     *)
(***************************************************************************)
SessionFixedAtIssuance ==
    /\ [](\A i \in 1..Len(reqs) :
             /\ reqs[i].sessionId # Omitted => reqs[i].session = reqs[i].sessionId
             /\ (Len(reqs) = 1 /\ reqs[i].phase # "spawned") =>
                    reqs[i].ran.session = reqs[i].session)
    /\ [][currentSessionId' # currentSessionId => UNCHANGED <<reqs, files, logs>>]_vars
    /\ [][Issued =>
             /\ (Newest.impl = "service" /\ Newest.sessionId = Omitted) =>
                    Newest.session = currentSessionId
             /\ files'[ScriptPath(Newest.op, Newest.impl)].session = Newest.session]_vars

\* a request issued under the initial session has run against it and
\* resolved, although the current session is B by now
SessionSetWhileInFlight ==
    /\ Len(reqs) = 1
    /\ reqs[1].impl = "service" /\ reqs[1].sessionId = Omitted
    /\ reqs[1].session = "vscode_session" /\ currentSessionId = "B"
    /\ reqs[1].ran.session = "vscode_session"
    /\ reqs[1].phase = "closed" /\ reqs[1].promise.state = "fulfilled"

(***************************************************************************)
(* C28.  A clear whose process ran resolves exactly when the process       *)
(* closed with code 0 after clear_session succeeded (the script printed    *)
(* its SUCCESS line) and rejects with 'Failed to clear session' otherwise; *)
(* the view posts clearMessages only after a clear that resolved and posts *)
(* nothing when the clear rejected.                                        *)
(***************************************************************************)
\* the script got past clear_session and printed SUCCESS
AgentCleared == \E i \in 1..Len(Split(stdout)) : Split(stdout)[i] = SUCCESS

ClearResolvesIffCleared ==
    kind = "clear" =>
        /\ (proc = "closed" /\ ~errored) =>
               IF exitCode = Code(0) /\ AgentCleared
               THEN promise.state = "fulfilled"
               ELSE promise = [state |-> "rejected", value |-> ClearFailure]
        /\ impl = "view" =>
               /\ (\E i \in 1..Len(panel) : panel[i] = ClearMessages) =>
                      promise.state = "fulfilled"
               /\ promise.state = "rejected" => panel = <<>>

(***************************************************************************)
(* C30.  For a sendMessage event handled while a view exists the panel     *)
(* receives, in order, the user addMessage and typing true and, once the   *)
(* request has settled, typing false: directly after them when the request *)
(* resolved, and after exactly one assistant message beginning with        *)
(* 'Error: ' when it rejected.                                             *)
(***************************************************************************)
TypingBracketsRequest ==
    (kind = "send" /\ impl = "view") =>
        /\ SubSeq(panel, 1, 2) = <<AddMessage("user", sentMessage), Typing(TRUE)>>
        /\ handler = "awaiting" => Len(panel) = 2
        /\ (handler = "done" /\ promise.state = "fulfilled") =>
               panel = <<AddMessage("user", sentMessage), Typing(TRUE), Typing(FALSE)>>
        /\ (handler = "done" /\ promise.state = "rejected") =>
               /\ Len(panel) = 4
               /\ panel[3].type = "addMessage" /\ panel[3].role = "assistant"
               /\ StartsWith(panel[3].content, ErrorLabel)
               /\ panel[4] = Typing(FALSE)
        /\ handler = "done" => promise.state # "pending"

\* the request failed after it had streamed a chunk, and the handler resumed
FailedSendReported ==
    /\ kind = "send" /\ impl = "view"
    /\ handler = "done" /\ promise.state = "rejected"
    /\ Delivered # <<>>

(***************************************************************************)
(* C29.  When the history process exits with code 0 and wrote a            *)
(* well-formed history (received without a character cut by a fragment's   *)
(* boundary), getSessionHistory resolves with one message for each entry,  *)
(* in the same order, content and timestamp unchanged, the type human      *)
(* mapped to user and every other type to assistant.                       *)
(***************************************************************************)
AgentEntry(type, content, timestamp) ==
    [type |-> type, content |-> content, timestamp |-> timestamp]

AgentHistories ==
    { <<>>,
      <<AgentEntry(HUMAN, <<"q">>, <<"1">>)>>,
      <<AgentEntry(HUMAN, <<"q">>, <<"1">>), AgentEntry(AI, <<LeadByte, ContByte>>, <<"2">>)>> }

\* json.dumps of a history, as print writes it
RECURSIVE DumpEntries(_)
DumpEntries(h) ==
    IF h = <<>> THEN <<>>
    ELSE EntryText(Head(h).type, Head(h).content, Head(h).timestamp)
             \o (IF Tail(h) = <<>> THEN <<>> ELSE <<",", " ">> \o DumpEntries(Tail(h)))

Dumps(h) == <<"[">> \o DumpEntries(h) \o <<"]", NL>>

JsonString(text) == [t |-> "str", v |-> text]

\* the messages the claim expects for a history
MessagesOf(h) ==
    [i \in 1..Len(h) |->
        [type |-> IF h[i].type = HUMAN THEN "user" ELSE "assistant",
         content |-> JsonString(toString(h[i].content)),
         timestamp |-> JsonString(toString(h[i].timestamp))]]

HistoryMappedEntryByEntry ==
    \A h \in AgentHistories :
        (kind = "history" /\ proc = "closed" /\ exitCode = Code(0)
            /\ stdout = Dumps(h) /\ output = toString(stdout)) =>
            promise = [state |-> "fulfilled", value |-> MessagesOf(h)]

\* a history of a human and an ai entry, received in several fragments
TwoEntriesFromFragments ==
    /\ kind = "history" /\ proc = "closed" /\ exitCode = Code(0)
    /\ Len(stdout) > 2 /\ stdout \in {Dumps(h) : h \in AgentHistories}
    /\ delivery = "split"
    /\ output = toString(stdout)
    /\ promise.state = "fulfilled" /\ Len(promise.value) = 2
    /\ promise.value[1].type = "user" /\ promise.value[2].type = "assistant"

====
